---------------------------- MODULE Spec2Model ----------------------------
(***************************************************************************)
(* A model of the legal-risk-app backend: the human approval system        *)
(* (app/api/approval_system.py), the agent workspace                       *)
(* (FilesystemMiddleware, app/agents/base_agent.py), and the agent loops   *)
(* of the coordinator and its two subagents (app/agents/legal_agents.py).  *)
(*                                                                         *)
(* Python values are represented as follows.  A dict is a TLA+ record or   *)
(* function; the empty dict is the function with the empty domain.  An     *)
(* Optional[T] value is a sequence of length at most one: <<>> is None,    *)
(* <<v>> is the value v.  A uuid4 string is an element of Ids.  An         *)
(* f-string is the tuple of its parts.  The timestamp field of an          *)
(* ApprovalRequest (datetime.now()) is read by no operation and is left    *)
(* out of the request record.                                              *)
(***************************************************************************)
EXTENDS Integers, Sequences, FiniteSets, TLC

VARIABLES
    pending_approvals,  \* HumanApprovalSystem.pending_approvals: an insertion-ordered dict
    approval_history,   \* HumanApprovalSystem.approval_history: a list of requests
    dirs,               \* the directories of the file system, each an absolute location
    files,              \* the regular files of the file system: location -> content
    state,              \* per agent, where its AgentExecutor run stands
    iterations,         \* per agent, the iterations counter of its AgentExecutor run
    tool,               \* per agent, the tool whose _arun is executing in TOOL_CALL
    loop_entries,       \* per subagent, how often its run() was entered in this session
    raised,             \* per agent, where the exception that ended its run was raised
    todos,              \* per TodoListMiddleware instance (one per owning agent), its list
    current_agent,      \* main.py's global: None, or the coordinator of the session
    ret                 \* the last operation called: its name, arguments and returned value

gate_vars == <<pending_approvals, approval_history>>

fs_vars == <<dirs, files>>

todo_vars == <<todos, current_agent>>

agent_vars == <<state, iterations, tool, loop_entries, raised, todos, current_agent>>

vars == <<pending_approvals, approval_history, dirs, files,
          state, iterations, tool, loop_entries, raised, todos, current_agent, ret>>

-----------------------------------------------------------------------------
(* Bounds of the model *)

\* The number of uuid4 values available, hence of requests ever created.
MaxRequests == 2

Ids == 1..MaxRequests

\* The number of file-write requests created beside the workspace operations.
MaxFileRequests == 1

\* The number of delegations to one subagent that a session is followed through.
MaxDelegations == 2

\* The number of todos a session holds, over its lists.
MaxTodos == 2

-----------------------------------------------------------------------------
(* Python values *)

None == <<>>

Some(v) == <<v>>

EmptyDict == [k \in {} |-> ""]

\* bool(x) of an Optional[Dict]: None and the empty dict are falsy.
Truthy(opt) == opt # None /\ DOMAIN opt[1] # {}

\* An insertion-ordered dict is a sequence of [key, value] entries with distinct keys.
DictKeys(d) == {d[i].key : i \in 1..Len(d)}

DictHas(d, k) == k \in DictKeys(d)

DictIndex(d, k) == CHOOSE i \in 1..Len(d) : d[i].key = k

\* d.get(k): Optional
DictGet(d, k) == IF DictHas(d, k) THEN Some(d[DictIndex(d, k)].value) ELSE None

\* d[k] = v: an existing key keeps its position, a new key goes last.
DictSet(d, k, v) ==
    IF DictHas(d, k)
    THEN [d EXCEPT ![DictIndex(d, k)] = [key |-> k, value |-> v]]
    ELSE Append(d, [key |-> k, value |-> v])

\* del d[k], for a key of d
DictDel(d, k) ==
    LET i == DictIndex(d, k)
    IN  SubSeq(d, 1, i - 1) \o SubSeq(d, i + 1, Len(d))

\* list(d.values())
DictValues(d) == [i \in 1..Len(d) |-> d[i].value]

-----------------------------------------------------------------------------
(* The file system under FilesystemMiddleware (app/agents/base_agent.py).   *)
(* A location is the sequence of names from "/" to a directory or file.     *)

\* The process's working directory, and "./data/agent_workspace" seen from it.
Cwd == <<"backend">>

base_path == "./data/agent_workspace"

BaseSegs == <<".", "data", "agent_workspace">>

WorkspaceRoot == Cwd \o <<"data", "agent_workspace">>

\* file_path.split("/") of the paths the operations are called with.
PathSegs ==
    [p \in {"report.md", "sub/report.md", "sub", "", "../report.md",
            "sub/../report.md"} |->
        CASE p = "report.md" -> <<"report.md">>
          [] p = "sub/report.md" -> <<"sub", "report.md">>
          [] p = "sub" -> <<"sub">>
          [] p = "" -> <<"">>
          [] p = "../report.md" -> <<"..", "report.md">>
          [] p = "sub/../report.md" -> <<"sub", "..", "report.md">>]

Paths == DOMAIN PathSegs

\* full_path = f"{self.base_path}/{file_path}", as its components
FullSegs(file_path) == BaseSegs \o PathSegs[file_path]

FullPath(file_path) == <<base_path, "/", file_path>>

Front(s) == SubSeq(s, 1, Len(s) - 1)

Last(s) == s[Len(s)]

Parent(loc) == IF loc = <<>> THEN <<>> ELSE Front(loc)

IsPrefix(s, t) == Len(s) <= Len(t) /\ SubSeq(t, 1, Len(s)) = s

\* Whether a location lies strictly under the workspace root.
InWorkspace(loc) == IsPrefix(WorkspaceRoot, loc) /\ loc # WorkspaceRoot

\* The kernel's walk of the components segs as directories, from directory loc:
\* the directory reached, or None when a component is missing or is no directory.
RECURSIVE WalkDir(_, _, _)
WalkDir(ds, loc, segs) ==
    IF segs = <<>> THEN Some(loc)
    ELSE LET c == Head(segs)
         IN  IF c \in {"", "."} THEN WalkDir(ds, loc, Tail(segs))
             ELSE IF c = ".." THEN WalkDir(ds, Parent(loc), Tail(segs))
             ELSE IF Append(loc, c) \in ds THEN WalkDir(ds, Append(loc, c), Tail(segs))
             ELSE None

\* os.makedirs(name, exist_ok=True) of the components segs from directory loc:
\* the directories afterwards, or None when a component is a regular file.
RECURSIVE makedirs(_, _, _, _)
makedirs(ds, fs, loc, segs) ==
    IF segs = <<>> THEN Some(ds)
    ELSE LET c == Head(segs)
         IN  IF c \in {"", "."} THEN makedirs(ds, fs, loc, Tail(segs))
             ELSE IF c = ".." THEN makedirs(ds, fs, Parent(loc), Tail(segs))
             ELSE IF Append(loc, c) \in DOMAIN fs THEN None
             ELSE makedirs(ds \cup {Append(loc, c)}, fs, Append(loc, c), Tail(segs))

\* The file open(full_path) names: its location, or an errno.
OpenTarget(ds, fs, segs) ==
    LET dir == WalkDir(ds, Cwd, Front(segs))
        name == Last(segs)
    IN  IF dir = None THEN [errno |-> "ENOENT"]
        ELSE IF name \in {"", ".", ".."} \/ Append(dir[1], name) \in ds
             THEN [errno |-> "EISDIR"]
        ELSE [errno |-> "OK", loc |-> Append(dir[1], name)]

read_file(file_path) ==
    LET t == OpenTarget(dirs, files, FullSegs(file_path))
    IN  /\ ret' = [op |-> "read_file", args |-> <<file_path>>,
                   value |-> IF t.errno # "OK"
                             THEN <<"Error reading file: ", t.errno, FullPath(file_path)>>
                             ELSE IF t.loc \notin DOMAIN files
                             THEN <<"Error reading file: ", "ENOENT", FullPath(file_path)>>
                             ELSE files[t.loc]]
        /\ UNCHANGED <<gate_vars, fs_vars, agent_vars>>

write_file(file_path, content) ==
    LET made == makedirs(dirs, files, Cwd, Front(FullSegs(file_path)))
    IN  IF made = None
        THEN /\ ret' = [op |-> "write_file", args |-> <<file_path, content>>,
                        value |-> <<"Error writing file: ", "EEXIST", FullPath(file_path)>>]
             /\ UNCHANGED <<gate_vars, fs_vars, agent_vars>>
        ELSE LET t == OpenTarget(made[1], files, FullSegs(file_path))
             IN  /\ dirs' = made[1]
                 /\ IF t.errno # "OK"
                    THEN /\ ret' = [op |-> "write_file", args |-> <<file_path, content>>,
                                    value |-> <<"Error writing file: ", t.errno,
                                                FullPath(file_path)>>]
                         /\ UNCHANGED files
                    ELSE /\ files' = [l \in DOMAIN files \cup {t.loc} |->
                                        IF l = t.loc THEN content ELSE files[l]]
                         /\ ret' = [op |-> "write_file", args |-> <<file_path, content>>,
                                    value |-> <<"File written successfully: ", file_path>>]
                 /\ UNCHANGED <<gate_vars, agent_vars>>

\* The prefixes of a location: the directories that lead to it.
Ancestors(loc) == {SubSeq(loc, 1, n) : n \in 0..Len(loc)}

-----------------------------------------------------------------------------
(* app/api/approval_system.py *)

ApprovalType ==
    {"todos", "subagent_task", "get_documents", "get_page_text", "get_page_image",
     "write_file", "edit_file", "internet_search", "url_content"}

PENDING == "pending"
APPROVED == "approved"
EDITED == "edited"
REJECTED == "rejected"

ApprovalStatus == {PENDING, APPROVED, EDITED, REJECTED}

\* The ids of the requests created so far: every request is in the pending
\* dict or in the history.
IssuedIds ==
    DictKeys(pending_approvals) \cup {approval_history[i].id : i \in 1..Len(approval_history)}

\* str(uuid.uuid4()): a value no earlier call returned.
uuid4 == Ids \ IssuedIds

ApprovalRequest(id, type, status, data, agent_name, description, highlights) ==
    [id |-> id, type |-> type, status |-> status, data |-> data,
     agent_name |-> agent_name, description |-> description, highlights |-> highlights]

\* create_approval_request without "self.pending_approvals[request.id] = request".
create_approval_request_unstored(approval_type, data, agent_name, description, highlights) ==
    \E id \in uuid4 :
        LET request == ApprovalRequest(id, approval_type, PENDING, data,
                                       agent_name, description, highlights)
        IN  /\ ret' = [op |-> "create_approval_request",
                       args |-> <<approval_type, data, agent_name, description, highlights>>,
                       value |-> Some(request)]
            /\ UNCHANGED <<gate_vars, fs_vars, agent_vars>>

create_approval_request(approval_type, data, agent_name, description, highlights) ==
    \E id \in uuid4 :
        LET request == ApprovalRequest(id, approval_type, PENDING, data,
                                       agent_name, description, highlights)
        IN  /\ pending_approvals' = DictSet(pending_approvals, request.id, request)
            /\ ret' = [op |-> "create_approval_request",
                       args |-> <<approval_type, data, agent_name, description, highlights>>,
                       value |-> Some(request)]
            /\ UNCHANGED <<approval_history, fs_vars, agent_vars>>

get_pending_approvals == DictValues(pending_approvals)

\* get_approval_request looking in the history when the id is not pending.
get_approval_request_with_history(request_id) ==
    IF DictHas(pending_approvals, request_id)
    THEN DictGet(pending_approvals, request_id)
    ELSE IF \E i \in 1..Len(approval_history) : approval_history[i].id = request_id
    THEN Some(approval_history[CHOOSE i \in 1..Len(approval_history) :
                                   approval_history[i].id = request_id])
    ELSE None

get_approval_request(request_id) == DictGet(pending_approvals, request_id)

\* A call of get_approval_request.
call_get_approval_request(request_id) ==
    /\ ret' = [op |-> "get_approval_request", args |-> <<request_id>>,
               value |-> get_approval_request(request_id)]
    /\ UNCHANGED <<gate_vars, fs_vars, agent_vars>>

\* respond_to_approval without "del self.pending_approvals[request_id]".
respond_to_approval_keeps_pending(request_id, status, modified_data, feedback) ==
    LET found == DictGet(pending_approvals, request_id)
        args == <<request_id, status, modified_data, feedback>>
    IN  IF found = None
        THEN /\ ret' = [op |-> "respond_to_approval", args |-> args, value |-> None]
             /\ UNCHANGED <<gate_vars, fs_vars, agent_vars>>
        ELSE LET request == [found[1] EXCEPT
                                !.status = status,
                                !.data = IF status = EDITED /\ Truthy(modified_data)
                                         THEN modified_data[1] ELSE @]
             IN  /\ approval_history' = Append(approval_history, request)
                 /\ pending_approvals' = DictSet(pending_approvals, request_id, request)
                 /\ ret' = [op |-> "respond_to_approval", args |-> args,
                            value |-> Some(request)]
                 /\ UNCHANGED <<fs_vars, agent_vars>>

\* respond_to_approval taking the replacement payload whatever the status.
respond_to_approval_any_status(request_id, status, modified_data, feedback) ==
    LET found == DictGet(pending_approvals, request_id)
        args == <<request_id, status, modified_data, feedback>>
    IN  IF found = None
        THEN /\ ret' = [op |-> "respond_to_approval", args |-> args, value |-> None]
             /\ UNCHANGED <<gate_vars, fs_vars, agent_vars>>
        ELSE LET request == [found[1] EXCEPT
                                !.status = status,
                                !.data = IF Truthy(modified_data)
                                         THEN modified_data[1] ELSE @]
             IN  /\ approval_history' = Append(approval_history, request)
                 /\ pending_approvals' = DictDel(pending_approvals, request_id)
                 /\ ret' = [op |-> "respond_to_approval", args |-> args,
                            value |-> Some(request)]
                 /\ UNCHANGED <<fs_vars, agent_vars>>

\* respond_to_approval carrying out a proposed file write as it resolves it.
respond_to_approval_executes(request_id, status, modified_data, feedback) ==
    LET found == DictGet(pending_approvals, request_id)
        args == <<request_id, status, modified_data, feedback>>
    IN  IF found = None
        THEN /\ ret' = [op |-> "respond_to_approval", args |-> args, value |-> None]
             /\ UNCHANGED <<gate_vars, fs_vars, agent_vars>>
        ELSE LET request == [found[1] EXCEPT
                                !.status = status,
                                !.data = IF status = EDITED /\ Truthy(modified_data)
                                         THEN modified_data[1] ELSE @]
                 t == OpenTarget(dirs, files, FullSegs(request.data.file_path))
             IN  /\ approval_history' = Append(approval_history, request)
                 /\ pending_approvals' = DictDel(pending_approvals, request_id)
                 /\ ret' = [op |-> "respond_to_approval", args |-> args,
                            value |-> Some(request)]
                 /\ IF request.type = "write_file" /\ t.errno = "OK"
                    THEN files' = [l \in DOMAIN files \cup {t.loc} |->
                                      IF l = t.loc THEN request.data.content ELSE files[l]]
                    ELSE UNCHANGED files
                 /\ UNCHANGED <<dirs, agent_vars>>

\* respond_to_approval emptying the pending dict instead of deleting one key.
respond_to_approval_drops_all(request_id, status, modified_data, feedback) ==
    LET found == DictGet(pending_approvals, request_id)
        args == <<request_id, status, modified_data, feedback>>
    IN  IF found = None
        THEN /\ ret' = [op |-> "respond_to_approval", args |-> args, value |-> None]
             /\ UNCHANGED <<gate_vars, fs_vars, agent_vars>>
        ELSE LET request == [found[1] EXCEPT
                                !.status = status,
                                !.data = IF status = EDITED /\ Truthy(modified_data)
                                         THEN modified_data[1] ELSE @]
             IN  /\ approval_history' = Append(approval_history, request)
                 /\ pending_approvals' = <<>>
                 /\ ret' = [op |-> "respond_to_approval", args |-> args,
                            value |-> Some(request)]
                 /\ UNCHANGED <<fs_vars, agent_vars>>

respond_to_approval(request_id, status, modified_data, feedback) ==
    LET found == DictGet(pending_approvals, request_id)
        args == <<request_id, status, modified_data, feedback>>
    IN  IF found = None
        THEN /\ ret' = [op |-> "respond_to_approval", args |-> args, value |-> None]
             /\ UNCHANGED <<gate_vars, fs_vars, agent_vars>>
        ELSE LET request == [found[1] EXCEPT
                                !.status = status,
                                !.data = IF status = EDITED /\ Truthy(modified_data)
                                         THEN modified_data[1] ELSE @]
             IN  /\ approval_history' = Append(approval_history, request)
                 /\ pending_approvals' = DictDel(pending_approvals, request_id)
                 /\ ret' = [op |-> "respond_to_approval", args |-> args,
                            value |-> Some(request)]
                 /\ UNCHANGED <<fs_vars, agent_vars>>

\* clear_pending_approvals without "self.pending_approvals.clear()".
clear_pending_approvals_keeps_pending ==
    /\ approval_history' = approval_history \o DictValues(pending_approvals)
    /\ ret' = [op |-> "clear_pending_approvals", args |-> <<>>, value |-> None]
    /\ UNCHANGED <<pending_approvals, fs_vars, agent_vars>>

\* clear_pending_approvals without "self.approval_history.extend(...)".
clear_pending_approvals_discards ==
    /\ pending_approvals' = <<>>
    /\ ret' = [op |-> "clear_pending_approvals", args |-> <<>>, value |-> None]
    /\ UNCHANGED <<approval_history, fs_vars, agent_vars>>

clear_pending_approvals ==
    /\ approval_history' = approval_history \o DictValues(pending_approvals)
    /\ pending_approvals' = <<>>
    /\ ret' = [op |-> "clear_pending_approvals", args |-> <<>>, value |-> None]
    /\ UNCHANGED <<fs_vars, agent_vars>>

\* self.approval_history[-limit:]
get_approval_history(limit) ==
    LET n == Len(approval_history)
        start == IF limit > 0 THEN (IF limit >= n THEN 1 ELSE n - limit + 1)
                 ELSE IF -limit >= n THEN n + 1 ELSE -limit + 1
    IN  SubSeq(approval_history, start, n)

\* A call of get_approval_history with a limit of the caller's.
call_get_approval_history(limit) ==
    /\ ret' = [op |-> "get_approval_history", args |-> <<limit>>,
               value |-> get_approval_history(limit)]
    /\ UNCHANGED <<gate_vars, fs_vars, agent_vars>>

create_file_operation_approval(operation, file_path, content, agent_name) ==
    create_approval_request(
        operation,
        [file_path |-> file_path, content |-> content],
        agent_name,
        <<agent_name,
          CASE operation = "write_file" -> <<"wants to write file: ", file_path>>
            [] operation = "edit_file" -> <<"wants to edit file: ", file_path>>
            [] OTHER -> <<"wants to perform file operation">> >>,
        Some([file |-> file_path]))

create_web_tool_approval(tool_type, query_or_url, agent_name) ==
    create_approval_request(
        tool_type,
        IF tool_type = "internet_search"
        THEN [query |-> query_or_url] ELSE [url |-> query_or_url],
        agent_name,
        <<agent_name,
          CASE tool_type = "internet_search" -> <<"wants to search: ", query_or_url>>
            [] tool_type = "url_content" ->
                 <<"wants to fetch content from: ", query_or_url>>
            [] OTHER -> <<"wants to use web tool">> >>,
        None)

-----------------------------------------------------------------------------
(* app/main.py: the human approval endpoints *)

\* POST /api/approvals/{approval_id}/respond; a None result is answered 404.
api_respond_to_approval(approval_id, response) ==
    respond_to_approval(approval_id, response.status, response.modified_data,
                        response.feedback)

\* GET /api/approvals/pending taking the requests it lists out of the dict.
api_get_pending_approvals_draining ==
    /\ ret' = [op |-> "get_pending_approvals", args |-> <<>>, value |-> get_pending_approvals]
    /\ pending_approvals' = <<>>
    /\ UNCHANGED <<approval_history, fs_vars, agent_vars>>

\* GET /api/approvals/pending
api_get_pending_approvals ==
    /\ ret' = [op |-> "get_pending_approvals", args |-> <<>>, value |-> get_pending_approvals]
    /\ UNCHANGED <<gate_vars, fs_vars, agent_vars>>

\* GET /api/approvals/history
api_get_approval_history ==
    /\ ret' = [op |-> "get_approval_history", args |-> <<>>,
               value |-> get_approval_history(50)]
    /\ UNCHANGED <<gate_vars, fs_vars, agent_vars>>

-----------------------------------------------------------------------------
(* app/agents/base_agent.py and app/agents/legal_agents.py: the agent      *)
(* loops.  BaseDeepAgent.run awaits AgentExecutor.ainvoke, whose loop is   *)
(*     while iterations < max_iterations:                                  *)
(*         ask the model; return on a final answer;                        *)
(*         run the tool it names (an unknown tool or an unparsable         *)
(*         reply yields an observation instead); iterations += 1           *)
(*     return the "Agent stopped due to iteration limit" response          *)
(* An exception of the model call or of a tool's _arun leaves the loop.    *)

Main == "Legal Risk Analysis Agent"
Analysis == "Analysis SubAgent"
CreateReport == "Create Report SubAgent"

SubAgents == {Analysis, CreateReport}

Agents == {Main} \cup SubAgents

\* The agents whose __init__ makes a TodoListMiddleware of their own.
TodoOwners == {Main, Analysis}

MainMaxIterations == 40
AnalysisMaxIterations == 30
CreateReportMaxIterations == 15

max_iterations ==
    [a \in Agents |->
        CASE a = Main -> MainMaxIterations
          [] a = Analysis -> AnalysisMaxIterations
          [] a = CreateReport -> CreateReportMaxIterations]

\* "Create Report (use=1)": the documented quota of the report subagent.
CreateReportQuota == 1

DocumentTools == {"list_documents", "get_documents", "get_page_text", "get_page_image"}

WebTools == {"internet_search", "url_content"}

DelegationTools == {"delegate_to_analysis", "delegate_to_create_report"}

\* self.tools of each agent
tools ==
    [a \in Agents |->
        CASE a = Main -> DelegationTools
          [] a = Analysis -> DocumentTools \cup WebTools
          [] a = CreateReport -> DocumentTools]

\* The subagent a delegation tool runs.
Delegate(t) == IF t = "delegate_to_analysis" THEN Analysis ELSE CreateReport

\* The ApprovalType of a tool's action; list_documents has none.
GatedCategory ==
    [t \in (DocumentTools \ {"list_documents"}) \cup WebTools \cup DelegationTools |->
        IF t \in DelegationTools THEN "subagent_task" ELSE t]

Terminal == {"DONE", "BUDGET_EXCEEDED", "FAILED"}

\* _should_continue comparing with <= : one iteration too many.
should_continue_inclusive(a) == iterations[a] <= max_iterations[a]

\* AgentExecutor._should_continue with max_execution_time = None
should_continue(a) == iterations[a] < max_iterations[a]

\* start_analysis whose analyze_company_documents runs the loop without
\* looking at the documents it found.
start_analysis_runs_anyway(documents) ==
    /\ \A a \in Agents : state[a] \in Terminal \cup {"IDLE"}
    /\ loop_entries' = [s \in SubAgents |-> 0]
    /\ iterations' = [a \in Agents |-> 0]
    /\ tool' = [a \in Agents |-> "none"]
    /\ raised' = [a \in Agents |-> "none"]
    /\ state' = [a \in Agents |-> IF a = Main THEN "RUNNING" ELSE "IDLE"]
    /\ ret' = [op |-> "start_analysis", args |-> <<>>,
               value |-> IF documents = {} THEN Some([status |-> "error"]) ELSE None]
    /\ todos' = [a \in TodoOwners |-> <<>>]
    /\ current_agent' = Some(Main)
    /\ UNCHANGED <<gate_vars, fs_vars>>

\* POST /api/agent/start-analysis: a new session, then analyze_company_documents.
start_analysis(documents) ==
    /\ \A a \in Agents : state[a] \in Terminal \cup {"IDLE"}
    /\ loop_entries' = [s \in SubAgents |-> 0]
    /\ iterations' = [a \in Agents |-> 0]
    /\ tool' = [a \in Agents |-> "none"]
    /\ raised' = [a \in Agents |-> "none"]
    /\ IF documents = {}
       THEN /\ state' = [a \in Agents |-> "IDLE"]
            /\ ret' = [op |-> "start_analysis", args |-> <<>>,
                         value |-> Some([status |-> "error"])]
       ELSE /\ state' = [a \in Agents |-> IF a = Main THEN "RUNNING" ELSE "IDLE"]
            /\ ret' = [op |-> "start_analysis", args |-> <<>>, value |-> None]
    /\ todos' = [a \in TodoOwners |-> <<>>]
    /\ current_agent' = Some(Main)
    /\ UNCHANGED <<gate_vars, fs_vars>>

\* One pass of the loop up to the tool call: the model's reply decides.
model_step(a, reply) ==
    /\ state[a] = "RUNNING"
    /\ should_continue(a)
    /\ CASE reply = "final_answer" ->
              /\ state' = [state EXCEPT ![a] = "DONE"]
              /\ UNCHANGED <<iterations, tool>>
         [] reply \in {"invalid_tool", "parse_error"} ->
              /\ iterations' = [iterations EXCEPT ![a] = @ + 1]
              /\ UNCHANGED <<state, tool>>
         [] reply = "fault" ->
              /\ state' = [state EXCEPT ![a] = "FAILED"]
              /\ UNCHANGED <<iterations, tool>>
         [] reply \in tools[a] ->
              /\ reply \in DelegationTools => loop_entries[Delegate(reply)] < MaxDelegations
              /\ state' = [state EXCEPT ![a] = "TOOL_CALL"]
              /\ tool' = [tool EXCEPT ![a] = reply]
              /\ UNCHANGED iterations
    /\ raised' = IF reply = "fault" THEN [raised EXCEPT ![a] = "model"] ELSE raised
    /\ UNCHANGED <<gate_vars, fs_vars, todo_vars, loop_entries, ret>>

\* The loop's exit when _should_continue is false.
budget_stop(a) ==
    /\ state[a] = "RUNNING"
    /\ ~should_continue(a)
    /\ state' = [state EXCEPT ![a] = "BUDGET_EXCEEDED"]
    /\ UNCHANGED <<gate_vars, fs_vars, todo_vars, iterations, tool, loop_entries, raised, ret>>

\* A tool's _arun whose return the loop does not count as an iteration.
tool_arun_uncounted(a, image_readable) ==
    /\ state[a] = "TOOL_CALL"
    /\ tool[a] \in DocumentTools \cup WebTools
    /\ IF tool[a] = "get_page_image" /\ ~image_readable
       THEN /\ state' = [state EXCEPT ![a] = "FAILED"]
            /\ raised' = [raised EXCEPT ![a] = "tool"]
       ELSE /\ state' = [state EXCEPT ![a] = "RUNNING"]
            /\ UNCHANGED raised
    /\ tool' = [tool EXCEPT ![a] = "none"]
    /\ UNCHANGED <<gate_vars, fs_vars, todo_vars, iterations, loop_entries, ret>>

\* A document or web tool's _arun: it queries or fetches, and returns its text.
\* GetPageImageTool opens the page's image file outside any try block.
tool_arun(a, image_readable) ==
    /\ state[a] = "TOOL_CALL"
    /\ tool[a] \in DocumentTools \cup WebTools
    /\ IF tool[a] = "get_page_image" /\ ~image_readable
       THEN /\ state' = [state EXCEPT ![a] = "FAILED"]
            /\ raised' = [raised EXCEPT ![a] = "tool"]
            /\ UNCHANGED iterations
       ELSE /\ state' = [state EXCEPT ![a] = "RUNNING"]
            /\ iterations' = [iterations EXCEPT ![a] = @ + 1]
            /\ UNCHANGED raised
    /\ tool' = [tool EXCEPT ![a] = "none"]
    /\ UNCHANGED <<gate_vars, fs_vars, todo_vars, loop_entries, ret>>

\* delegate_to_analysis / delegate_to_create_report up to the await: the
\* subagent's run is entered.
delegate_call ==
    /\ state[Main] = "TOOL_CALL"
    /\ tool[Main] \in DelegationTools
    /\ state[Delegate(tool[Main])] = "IDLE"
    /\ state' = [state EXCEPT ![Delegate(tool[Main])] = "RUNNING"]
    /\ iterations' = [iterations EXCEPT ![Delegate(tool[Main])] = 0]
    /\ loop_entries' = [loop_entries EXCEPT ![Delegate(tool[Main])] = @ + 1]
    /\ UNCHANGED <<gate_vars, fs_vars, todo_vars, tool, raised, ret>>

\* The delegation tool after the await: result.get("output", ...) is returned
\* to the coordinator's loop; an exception of the subagent's run passes through.
delegate_return ==
    /\ state[Main] = "TOOL_CALL"
    /\ tool[Main] \in DelegationTools
    /\ state[Delegate(tool[Main])] \in Terminal
    /\ IF state[Delegate(tool[Main])] = "FAILED"
       THEN /\ state' = [state EXCEPT ![Main] = "FAILED"]
            /\ raised' = [raised EXCEPT ![Main] = raised[Delegate(tool[Main])]]
            /\ UNCHANGED iterations
       ELSE /\ state' = [state EXCEPT ![Main] = "RUNNING",
                                      ![Delegate(tool[Main])] = "IDLE"]
            /\ iterations' = [iterations EXCEPT ![Main] = @ + 1,
                                                ![Delegate(tool[Main])] = 0]
            /\ UNCHANGED raised
    /\ tool' = [tool EXCEPT ![Main] = "none"]
    /\ UNCHANGED <<gate_vars, fs_vars, todo_vars, loop_entries, ret>>

-----------------------------------------------------------------------------
(* app/agents/base_agent.py: TodoListMiddleware.  A text is the sequence   *)
(* of the parts it was concatenated from; "\n" is a part of its own.       *)

add_todo(a, task, status) ==
    /\ todos' = [todos EXCEPT ![a] = Append(@, [task |-> task, status |-> status])]
    /\ ret' = [op |-> "add_todo", args |-> <<a, task, status>>, value |-> None]
    /\ UNCHANGED <<gate_vars, fs_vars, state, iterations, tool, loop_entries, raised,
                   current_agent>>

\* update_todo taking a negative index from the end, as a bare self.todos[index] does.
update_todo_from_end(a, index, status) ==
    /\ IF -Len(todos[a]) <= index /\ index < Len(todos[a])
       THEN todos' = [todos EXCEPT ![a][IF index < 0 THEN Len(todos[a]) + index + 1
                                        ELSE index + 1].status = status]
       ELSE UNCHANGED todos
    /\ ret' = [op |-> "update_todo", args |-> <<a, index, status>>, value |-> None]
    /\ UNCHANGED <<gate_vars, fs_vars, state, iterations, tool, loop_entries, raised,
                   current_agent>>

update_todo(a, index, status) ==
    /\ IF 0 <= index /\ index < Len(todos[a])
       THEN todos' = [todos EXCEPT ![a][index + 1].status = status]
       ELSE UNCHANGED todos
    /\ ret' = [op |-> "update_todo", args |-> <<a, index, status>>, value |-> None]
    /\ UNCHANGED <<gate_vars, fs_vars, state, iterations, tool, loop_entries, raised,
                   current_agent>>

get_todos(a) == todos[a]

\* The two status icons: the characters U+2713 and U+25CB.
CheckMark == "U+2713"

WhiteCircle == "U+25CB"

RECURSIVE FormatLines(_, _)
\* The loop of format_todos from index i (0-based) on.
FormatLines(list, i) ==
    IF i >= Len(list) THEN <<>>
    ELSE LET todo == list[i + 1]
             status_icon == IF todo.status = "completed" THEN CheckMark ELSE WhiteCircle
         IN  <<ToString(i + 1), ". [", status_icon, "] ", todo.task, " (", todo.status, ")", "\n">>
             \o FormatLines(list, i + 1)

\* format_todos without its "Current todos:" line.
format_todos_no_header(list) ==
    IF list = <<>> THEN <<"No todos yet.">>
    ELSE FormatLines(list, 0)

format_todos(list) ==
    IF list = <<>> THEN <<"No todos yet.">>
    ELSE <<"Current todos:", "\n">> \o FormatLines(list, 0)

\* A call of format_todos on an agent's middleware.
call_format_todos(a) ==
    /\ ret' = [op |-> "format_todos", args |-> <<a>>, value |-> format_todos(todos[a])]
    /\ UNCHANGED <<gate_vars, fs_vars, agent_vars>>

\* GET /api/agent/status (app/main.py)
get_agent_status ==
    /\ ret' = [op |-> "get_agent_status", args |-> <<>>,
               value |-> IF current_agent = None
                         THEN [status |-> "not_started", todos |-> <<>>]
                         ELSE [status |-> "running",
                               todos |-> get_todos(current_agent[1])]]
    /\ UNCHANGED <<gate_vars, fs_vars, agent_vars>>

\* One pass of the loop of websocket_endpoint (app/main.py): the messages sent.
websocket_push ==
    LET pending == get_pending_approvals
    IN  /\ ret' = [op |-> "websocket_push", args |-> <<>>,
                   value |-> (IF current_agent # None
                              THEN <<[type |-> "status",
                                      todos |-> get_todos(current_agent[1])]>>
                              ELSE <<>>)
                             \o (IF pending # <<>>
                                 THEN <<[type |-> "approval_required",
                                         count |-> Len(pending)]>>
                                 ELSE <<>>)]
        /\ UNCHANGED <<gate_vars, fs_vars, agent_vars>>

-----------------------------------------------------------------------------
Init ==
    /\ pending_approvals = <<>>
    /\ approval_history = <<>>
    /\ dirs = Ancestors(WorkspaceRoot)
    /\ files = [l \in {} |-> <<>>]
    /\ state = [a \in Agents |-> "IDLE"]
    /\ iterations = [a \in Agents |-> 0]
    /\ tool = [a \in Agents |-> "none"]
    /\ loop_entries = [s \in SubAgents |-> 0]
    /\ raised = [a \in Agents |-> "none"]
    /\ todos = [a \in TodoOwners |-> <<>>]
    /\ current_agent = None
    /\ ret = [op |-> "init", args |-> <<>>, value |-> None]

-----------------------------------------------------------------------------
(* The values the operations are called with *)

AgentNames == {"agent"}

Contents == {<<"# R">>, <<"draft">>}

\* The bodies POST /respond accepts: class ApprovalResponse.  A replacement
\* payload is None, the empty dict or a dict with an entry.
ApprovalResponses(id) ==
    [id : {id}, status : ApprovalStatus, modified_data : {None}, feedback : {None}]
    \cup [id : {id}, status : {EDITED},
          modified_data : {Some(EmptyDict), Some([url |-> "https://edited.example"])},
          feedback : {None}]
    \cup [id : {id}, status : {APPROVED, REJECTED},
          modified_data : {Some([url |-> "https://edited.example"])},
          feedback : {Some("no")}]

\* The bodies that approve or reject and carry no replacement payload.
PlainResponses(id) ==
    [id : {id}, status : {APPROVED, REJECTED}, modified_data : {None}, feedback : {None}]

\* The approval system under its callers and the operator's endpoints.
NextGate ==
    \/ \E a \in AgentNames :
           create_file_operation_approval("write_file", "report.md", <<"# R">>, a)
    \/ \E a \in AgentNames : create_web_tool_approval("url_content", "https://example.com", a)
    \/ \E id \in Ids : \E response \in ApprovalResponses(id) :
           api_respond_to_approval(id, response)
    \/ clear_pending_approvals
    \/ api_get_pending_approvals
    \/ api_get_approval_history

SpecGate == Init /\ [][NextGate]_vars

\* The workspace, with file writes proposed to the approval system.
NextWorkspace ==
    \/ \E p \in Paths, c \in Contents : write_file(p, c)
    \/ \E p \in Paths : read_file(p)
    \/ \E a \in AgentNames :
           /\ Cardinality(IssuedIds) < MaxFileRequests
           /\ create_file_operation_approval("write_file", "report.md", <<"# R">>, a)
    \/ \E id \in Ids : \E response \in PlainResponses(id) :
           api_respond_to_approval(id, response)

SpecWorkspace == Init /\ [][NextWorkspace]_vars

\* The replies of the model to one request of the loop.
Replies(a) == {"final_answer", "invalid_tool", "parse_error", "fault"} \cup tools[a]

\* One analysis session at a time: the coordinator's loop and its subagents'.
NextAgent ==
    \/ \E documents \in {{}, {1}} : start_analysis(documents)
    \/ \E a \in Agents : \E reply \in Replies(a) : model_step(a, reply)
    \/ \E a \in Agents : budget_stop(a)
    \/ \E a \in SubAgents, image_readable \in BOOLEAN : tool_arun(a, image_readable)
    \/ delegate_call
    \/ delegate_return

SpecAgent == Init /\ [][NextAgent]_vars

\* The steps of the running loops: each awaited model call and tool call returns.
LoopStep ==
    \/ \E a \in Agents : \E reply \in Replies(a) : model_step(a, reply)
    \/ \E a \in Agents : budget_stop(a)
    \/ \E a \in SubAgents, image_readable \in BOOLEAN : tool_arun(a, image_readable)
    \/ delegate_call
    \/ delegate_return

FairSpecAgent == Init /\ [][NextAgent]_vars /\ WF_vars(LoopStep)

Tasks == {"Review contract X", "Check NDA"}

\* A status is any str: the two the tracker names and one it does not.
Statuses == {"pending", "completed", "in_progress"}

\* Indices below 0, inside the list, equal to its length and beyond it.
Indices == -1..(MaxTodos + 1)

TodoCount == Len(todos[Main]) + Len(todos[Analysis])

\* The todo lists of a session under their agents and the status endpoint.
NextTodos ==
    \/ \E documents \in {{}, {1}} : start_analysis(documents)
    \/ \E a \in TodoOwners, task \in Tasks, status \in Statuses :
           /\ current_agent # None
           /\ TodoCount < MaxTodos
           /\ add_todo(a, task, status)
    \/ \E a \in TodoOwners, index \in Indices, status \in Statuses :
           /\ current_agent # None
           /\ update_todo(a, index, status)
    \/ \E a \in TodoOwners : current_agent # None /\ call_format_todos(a)
    \/ get_agent_status

SpecTodos == Init /\ [][NextTodos]_vars

\* The limits history is asked with: none, fewer than, as many as and more
\* than the requests there can be.
Limits == 0..(MaxRequests + 1)

\* The approval system with its history read under a limit.
NextHistory ==
    \/ \E a \in AgentNames : create_web_tool_approval("url_content", "https://example.com", a)
    \/ \E id \in Ids : \E response \in PlainResponses(id) :
           api_respond_to_approval(id, response)
    \/ clear_pending_approvals
    \/ \E limit \in Limits : call_get_approval_history(limit)

SpecHistory == Init /\ [][NextHistory]_vars

\* str(e) of the FileNotFoundError that open() raises for file_path.
ErrorText(file_path) == <<"Error reading file: ", "ENOENT", FullPath(file_path)>>

\* The contents written: a report, and a text that reads as the result of a
\* failed read of report.md reads.
ReadContents == {<<"# R">>, ErrorText("report.md")}

\* The workspace under writes and reads alone.
NextRead ==
    \/ \E p \in Paths, c \in ReadContents : write_file(p, c)
    \/ \E p \in Paths : read_file(p)

SpecRead == Init /\ [][NextRead]_vars

\* The operator's and the pollers' reads among the operations that write the
\* todo lists and the approval system.
NextTelemetry ==
    \/ \E documents \in {{}, {1}} : start_analysis(documents)
    \/ \E a \in TodoOwners :
           /\ current_agent # None
           /\ TodoCount < MaxTodos
           /\ add_todo(a, "Review contract X", "pending")
    \/ \E a \in TodoOwners : current_agent # None /\ update_todo(a, 0, "completed")
    \/ \E a \in AgentNames : create_web_tool_approval("url_content", "https://example.com", a)
    \/ \E id \in Ids : \E response \in PlainResponses(id) :
           api_respond_to_approval(id, response)
    \/ clear_pending_approvals
    \/ get_agent_status
    \/ api_get_pending_approvals
    \/ \E id \in Ids : call_get_approval_request(id)
    \/ api_get_approval_history
    \/ websocket_push

SpecTelemetry == Init /\ [][NextTelemetry]_vars

\* The approval system under submit and resolve alone.
NextSubmitResolve ==
    \/ \E a \in AgentNames :
           create_file_operation_approval("write_file", "report.md", <<"# R">>, a)
    \/ \E a \in AgentNames : create_web_tool_approval("url_content", "https://example.com", a)
    \/ \E id \in Ids : \E response \in ApprovalResponses(id) :
           api_respond_to_approval(id, response)

SpecSubmitResolve == Init /\ [][NextSubmitResolve]_vars

-----------------------------------------------------------------------------
(* The claims *)

HistoryIndices == 1..Len(approval_history)

\* C1: whenever a tool with a gated action category is executing, an approval
\* request of that category has been submitted and resolved APPROVED or EDITED.
C1_GatedToolAwaitsApproval ==
    \A a \in Agents :
        state[a] = "TOOL_CALL" /\ tool[a] \in DOMAIN GatedCategory =>
            \E i \in HistoryIndices :
                /\ approval_history[i].type = GatedCategory[tool[a]]
                /\ approval_history[i].status \in {APPROVED, EDITED}

\* C2: in one session the report subagent's loop is entered at most as often
\* as its quota of 1 allows.
C2_ReportQuotaRespected == loop_entries[CreateReport] <= CreateReportQuota

\* C3: a resolve of an id in the pending dict returns the request and removes
\* it for good; a resolve of any other id returns None and changes neither the
\* pending dict nor the history; so no id is resolved into the history twice.
C3_ResolveAtMostOnce ==
    /\ [](\A i, j \in HistoryIndices :
              /\ approval_history[i].id = approval_history[j].id => i = j
              /\ ~DictHas(pending_approvals, approval_history[i].id))
    /\ [][ret'.op = "respond_to_approval" =>
            IF DictHas(pending_approvals, ret'.args[1])
            THEN /\ ret'.value # None
                 /\ ret'.value[1].id = ret'.args[1]
                 /\ ~DictHas(pending_approvals', ret'.args[1])
            ELSE /\ ret'.value = None
                 /\ UNCHANGED gate_vars]_vars

\* C3's case: a second resolve of an id already in the history returned None.
C3_Witness ==
    /\ ret.op = "respond_to_approval"
    /\ ret.value = None
    /\ \E i \in HistoryIndices : approval_history[i].id = ret.args[1]

\* C4: every pending request has status PENDING and every request in the
\* history has a terminal status.
C4_StatusTerminalInHistory ==
    /\ \A i \in 1..Len(pending_approvals) : pending_approvals[i].value.status = PENDING
    /\ \A i \in HistoryIndices :
           approval_history[i].status \in {APPROVED, EDITED, REJECTED}

\* C5: the request a submit returns has an id no earlier request had, and right
\* after the call it is listed as pending under its id, with status PENDING and
\* the category, payload, actor and description submitted.
C5_SubmitFreshAndPending ==
    /\ [](ret.op = "create_approval_request" =>
            LET r == ret.value[1]
            IN  /\ r.status = PENDING
                /\ r.type = ret.args[1]
                /\ r.data = ret.args[2]
                /\ r.agent_name = ret.args[3]
                /\ r.description = ret.args[4]
                /\ \E i \in 1..Len(get_pending_approvals) : get_pending_approvals[i] = r
                /\ get_approval_request(r.id) = Some(r))
    /\ [][ret'.op = "create_approval_request" => ret'.value[1].id \notin IssuedIds]_vars

\* C5's case: a second submit returned while the first request is still pending.
C5_Witness ==
    /\ ret.op = "create_approval_request"
    /\ Len(pending_approvals) = 2

\* C6: a resolve with EDITED and a replacement payload leaves the request with
\* the replacement as its payload.
C6_EditedTakesReplacement ==
    ret.op = "respond_to_approval" /\ ret.value # None
        /\ ret.args[2] = EDITED /\ ret.args[3] # None =>
            ret.value[1].data = ret.args[3][1]

\* C7: a resolve with APPROVED or REJECTED leaves the request, returned and in
\* the history, with the payload it was submitted with.
C7_ApprovedRejectedKeepPayload ==
    [][ret'.op = "respond_to_approval" /\ ret'.value # None
           /\ ret'.args[2] \in {APPROVED, REJECTED} =>
        /\ DictHas(pending_approvals, ret'.args[1])
        /\ ret'.value[1].data = DictGet(pending_approvals, ret'.args[1])[1].data
        /\ approval_history'[Len(approval_history')] = ret'.value[1]]_vars

\* C7's case: a request was approved or rejected with a replacement payload
\* passed along, and kept another payload.
C7_Witness ==
    /\ ret.op = "respond_to_approval"
    /\ ret.value # None
    /\ ret.args[2] \in {APPROVED, REJECTED}
    /\ Truthy(ret.args[3])
    /\ ret.value[1].data # ret.args[3][1]

\* The file a read or write of file_path names, when the walk reaches one.
TargetOf(file_path) == OpenTarget(dirs, files, FullSegs(file_path))

IsReadError(value) == value[1] = "Error reading file: "

\* C8: a submit or a resolve of a file-write request changes no file and no
\* directory, and a read of a path that holds no file returns the error text.
C8_SubmitResolveLeaveFiles ==
    /\ [][ret'.op \in {"create_approval_request", "respond_to_approval"} =>
            UNCHANGED fs_vars]_vars
    /\ [](ret.op = "read_file" /\ (TargetOf(ret.args[1]).errno # "OK"
                                   \/ TargetOf(ret.args[1]).loc \notin DOMAIN files) =>
            IsReadError(ret.value))

\* C8's case: the write of report.md was proposed and rejected, and a read of
\* report.md afterwards finds no file.
C8_Witness ==
    /\ ret.op = "read_file"
    /\ ret.args[1] = "report.md"
    /\ IsReadError(ret.value)
    /\ Append(WorkspaceRoot, "report.md") \notin DOMAIN files
    /\ \E i \in HistoryIndices :
           /\ approval_history[i].type = "write_file"
           /\ approval_history[i].status = REJECTED
           /\ approval_history[i].data.file_path = "report.md"

\* C9: every file lies under the workspace root, and a read of a path that
\* resolves outside the root returns the error text.
C9_SandboxHolds ==
    /\ \A l \in DOMAIN files : InWorkspace(l)
    /\ ret.op = "read_file" /\ TargetOf(ret.args[1]).errno = "OK"
          /\ ~InWorkspace(TargetOf(ret.args[1]).loc) => IsReadError(ret.value)

\* C10: a run never counts more iterations than its cap, no tool runs once
\* the cap is reached, a run stopped for its budget has counted exactly the
\* cap, and at the cap the only step left is that stop.
C10_IterationCap ==
    \A a \in Agents :
        /\ iterations[a] <= max_iterations[a]
        /\ state[a] = "TOOL_CALL" => iterations[a] < max_iterations[a]
        /\ state[a] = "BUDGET_EXCEEDED" => iterations[a] = max_iterations[a]
        /\ state[a] = "RUNNING" /\ iterations[a] = max_iterations[a] =>
               /\ ENABLED budget_stop(a)
               /\ ~ENABLED (\E reply \in Replies(a) : model_step(a, reply))

\* C10's case: the analysis subagent used its 30 iterations and was stopped,
\* inside a delegation of the coordinator.
C10_Witness ==
    /\ state[Analysis] = "BUDGET_EXCEEDED"
    /\ iterations[Analysis] = AnalysisMaxIterations
    /\ state[Main] = "TOOL_CALL"

\* C11: when every model call and tool call returns, a run that is RUNNING or
\* in TOOL_CALL reaches DONE, BUDGET_EXCEEDED or FAILED, the coordinator's run
\* with its delegations included.
C11_RunTerminates ==
    \A a \in Agents : state[a] \in {"RUNNING", "TOOL_CALL"} ~> state[a] \in Terminal

\* C11's case: the coordinator's run ended after steps that each delegated to
\* a subagent's loop.
C11_Witness ==
    /\ state[Main] = "DONE"
    /\ \A s \in SubAgents : loop_entries[s] = MaxDelegations
    /\ iterations[Main] = 2 * MaxDelegations

\* C12: a document or web tool's call ends with its result text handed to the
\* loop, which runs on: no such call ends the run of the agent that made it.
C12_ToolFailureIsText ==
    [][\A a \in Agents :
          state[a] = "TOOL_CALL" /\ tool[a] \in DocumentTools \cup WebTools =>
              state'[a] \in {"TOOL_CALL", "RUNNING"}]_vars

\* C13: when the subagent of a delegation ended FAILED on an exception of its
\* model call, the delegation returns to the coordinator's loop, which runs on.
C13_SubagentFaultIsRefusal ==
    [][state[Main] = "TOOL_CALL" /\ tool[Main] \in DelegationTools
          /\ state[Delegate(tool[Main])] = "FAILED"
          /\ raised[Delegate(tool[Main])] = "model" =>
              state'[Main] \in {"TOOL_CALL", "RUNNING"}]_vars

\* C14: a resolve leaves every other pending request as it was: still listed
\* as pending, with status PENDING and its payload, and not in the history.
C14_ResolveLeavesOthers ==
    [][ret'.op = "respond_to_approval" =>
        \A id \in DictKeys(pending_approvals) \ {ret'.args[1]} :
            /\ DictGet(pending_approvals', id) = DictGet(pending_approvals, id)
            /\ DictGet(pending_approvals', id)[1].status = PENDING
            /\ \E i \in 1..Len(DictValues(pending_approvals')) :
                   DictValues(pending_approvals')[i] = DictGet(pending_approvals, id)[1]
            /\ \A i \in 1..Len(approval_history') : approval_history'[i].id # id]_vars

\* C14's case: of two pending requests of one category and one actor, one
\* was resolved and the other is pending.
C14_Witness ==
    /\ ret.op = "respond_to_approval"
    /\ ret.value # None
    /\ Len(pending_approvals) = 1
    /\ pending_approvals[1].value.type = ret.value[1].type
    /\ pending_approvals[1].value.agent_name = ret.value[1].agent_name
    /\ pending_approvals[1].value.status = PENDING

\* C15: the agents of a session hold one todo list: the todos of every agent
\* are the same, and they are the todos of the status snapshot.
C15_OneSharedTracker ==
    /\ \A a, b \in TodoOwners : get_todos(a) = get_todos(b)
    /\ ret.op = "get_agent_status" /\ current_agent # None =>
           \A a \in TodoOwners : ret.value.todos = get_todos(a)

\* C16: update_todo returns without an error; with an index outside
\* 0..len-1 it changes no list, and with an index inside it changes the status
\* of that one item of that one list and nothing else.
C16_UpdateTodoFrame ==
    [][ret'.op = "update_todo" =>
        LET a == ret'.args[1]
            index == ret'.args[2]
            status == ret'.args[3]
        IN  /\ ret'.value = None
            /\ \A b \in TodoOwners \ {a} : todos'[b] = todos[b]
            /\ Len(todos'[a]) = Len(todos[a])
            /\ \A i \in 1..Len(todos[a]) :
                   /\ todos'[a][i].task = todos[a][i].task
                   /\ todos'[a][i].status =
                          IF 0 <= index /\ index < Len(todos[a]) /\ i = index + 1
                          THEN status ELSE todos[a][i].status]_vars

\* C16's case: update_todo was called on a list with todos, with the list's
\* length or a negative number as the index.
C16_Witness ==
    /\ ret.op = "update_todo"
    /\ Len(todos[ret.args[1]]) > 0
    /\ ret.args[2] \in {-1, Len(todos[ret.args[1]])}
    /\ ret.args[3] = "completed"
    /\ \A i \in 1..Len(todos[ret.args[1]]) : todos[ret.args[1]][i].status = "pending"

\* C17: the status of every todo is "pending" or "completed".
C17_StatusPendingOrCompleted ==
    \A a \in TodoOwners : \A i \in 1..Len(todos[a]) :
        todos[a][i].status \in {"pending", "completed"}

RECURSIVE SplitLines(_)
\* The lines of a text: its parts between one "\n" and the next.
SplitLines(text) ==
    IF text = <<>> THEN <<>>
    ELSE LET ends == {k \in 1..Len(text) : text[k] = "\n"}
             k == IF ends = {} THEN Len(text) + 1
                  ELSE CHOOSE e \in ends : \A f \in ends : e <= f
         IN  <<SubSeq(text, 1, k - 1)>> \o SplitLines(SubSeq(text, k + 1, Len(text)))

\* The line of the i-th todo (from 1): number, icon, task and status word.
TodoLine(list, i) ==
    <<ToString(i), ". [", IF list[i].status = "completed" THEN CheckMark ELSE WhiteCircle, "] ",
      list[i].task, " (", list[i].status, ")">>

\* C18 as stated: format_todos returns "No todos yet." for no todos, and
\* otherwise a text whose line i is the line of the i-th todo.
C18_RenderLineIsTodo ==
    ret.op = "format_todos" =>
        LET list == todos[ret.args[1]]
            lines == SplitLines(ret.value)
        IN  IF list = <<>> THEN ret.value = <<"No todos yet.">>
            ELSE \A i \in 1..Len(list) :
                    /\ i <= Len(lines)
                    /\ lines[i] = TodoLine(list, i)

\* C18 amended: format_todos returns "No todos yet." for no todos, and
\* otherwise a text whose line 1 is "Current todos:" and whose line i + 1 is
\* the line of the i-th todo, with no line after the last todo's.
C18_RenderHeaderThenTodos ==
    ret.op = "format_todos" =>
        LET list == todos[ret.args[1]]
            lines == SplitLines(ret.value)
        IN  IF list = <<>> THEN ret.value = <<"No todos yet.">>
            ELSE /\ Len(lines) = Len(list) + 1
                 /\ lines[1] = <<"Current todos:">>
                 /\ \A i \in 1..Len(list) : lines[i + 1] = TodoLine(list, i)

\* C18's case: "Review contract X" was added and completed, and the text
\* shows it on line 2 with the check mark and the word "completed".
C18_Witness ==
    /\ ret.op = "format_todos"
    /\ todos[ret.args[1]] = <<[task |-> "Review contract X", status |-> "completed"]>>
    /\ SplitLines(ret.value)[2] =
           <<"1", ". [", CheckMark, "] ", "Review contract X", " (", "completed", ")">>

\* C19: clear_pending_approvals leaves the pending dict empty and the history
\* as it was, followed by the requests that were pending, each once and as it
\* was, status included.
C19_ClearMovesPending ==
    [][ret'.op = "clear_pending_approvals" =>
        LET n == Len(approval_history)
            moved == (n + 1)..Len(approval_history')
        IN  /\ pending_approvals' = <<>>
            /\ Len(approval_history') = n + Len(pending_approvals)
            /\ SubSeq(approval_history', 1, n) = approval_history
            /\ \A i \in 1..Len(pending_approvals) :
                   /\ Cardinality({j \in moved : approval_history'[j].id
                                                   = pending_approvals[i].key}) = 1
                   /\ \E j \in moved :
                          approval_history'[j] = pending_approvals[i].value]_vars

\* C19's case: a clear moved a pending request behind a resolved one.
C19_Witness ==
    /\ ret.op = "clear_pending_approvals"
    /\ pending_approvals = <<>>
    /\ Len(approval_history) = 2
    /\ approval_history[1].status \in {APPROVED, REJECTED, EDITED}
    /\ approval_history[2].status = PENDING

\* C20: get_approval_history(limit) with limit >= 0 returns the last
\* min(limit, n) entries of the n in the history, in the history's order.
C20_HistoryLastLimit ==
    ret.op = "get_approval_history" /\ Len(ret.args) = 1 =>
        LET limit == ret.args[1]
            n == Len(approval_history)
            m == IF limit < n THEN limit ELSE n
        IN  ret.value = SubSeq(approval_history, n - m + 1, n)

\* Whether file_path names a file, with the directories ds and the files fs.
HoldsFile(ds, fs, file_path) ==
    LET t == OpenTarget(ds, fs, FullSegs(file_path))
    IN  t.errno = "OK" /\ t.loc \in DOMAIN fs

\* C21: what read_file returns tells a read that found no file from one that
\* found a file: two reads that return the same value both found a file, or
\* both found none.
C21_ReadOutcomeTellable ==
    [][ret.op = "read_file" /\ ret'.op = "read_file" /\ ret'.value = ret.value =>
          (HoldsFile(dirs, files, ret.args[1])
              <=> HoldsFile(dirs', files', ret'.args[1]))]_vars

ReadOnlyOps ==
    {"get_agent_status", "get_pending_approvals", "get_approval_request",
     "get_approval_history", "websocket_push"}

\* C22: the status snapshot, the list of pending requests, the lookup of a
\* request, the history and the push over the websocket change no todo list,
\* not the pending dict and not the history.
C22_ReadsChangeNothing ==
    [][ret'.op \in ReadOnlyOps =>
          UNCHANGED <<todos, pending_approvals, approval_history>>]_vars

\* C22's case: a push over the websocket reported the todos and a pending
\* request, with a resolved request in the history.
C22_Witness ==
    /\ ret.op = "websocket_push"
    /\ Len(ret.value) = 2
    /\ ret.value[1].todos # <<>>
    /\ ret.value[2].count = 1
    /\ approval_history # <<>>

\* C25: get_approval_request(id) returns a request exactly when id is a key
\* of the pending dict, and then the request of that id that
\* get_pending_approvals lists; for an id in the history it returns None.
C25_GetIffPending ==
    ret.op = "get_approval_request" =>
        LET id == ret.args[1]
        IN  /\ ret.value # None <=> DictHas(pending_approvals, id)
            /\ ret.value # None =>
                   /\ ret.value[1].id = id
                   /\ \E i \in 1..Len(get_pending_approvals) :
                          get_pending_approvals[i] = ret.value[1]
            /\ (\E i \in HistoryIndices : approval_history[i].id = id) =>
                   ret.value = None

\* C25's case: a request resolved into the history was looked up by its id,
\* and None came back.
C25_Witness ==
    /\ ret.op = "get_approval_request"
    /\ ret.value = None
    /\ \E i \in HistoryIndices :
           approval_history[i].id = ret.args[1] /\ approval_history[i].status = APPROVED

\* C23: add_todo(task) returns the index of the new todo, the list's length
\* before the call, and appends it with status "pending"; add_todo and
\* update_todo shorten no list and keep the task of every todo.
C23_AddReturnsIndex ==
    [][/\ ret'.op = "add_todo" /\ ret'.args[3] = "pending" =>
            LET a == ret'.args[1]
            IN  /\ ret'.value = Some(Len(todos[a]))
                /\ todos'[a] = Append(todos[a], [task |-> ret'.args[2],
                                                 status |-> "pending"])
       /\ ret'.op \in {"add_todo", "update_todo"} =>
            \A a \in TodoOwners :
                /\ Len(todos'[a]) >= Len(todos[a])
                /\ \A i \in 1..Len(todos[a]) : todos'[a][i].task = todos[a][i].task]_vars

\* C24: every request is stored in the pending dict under its own id, or is
\* in the history, once, and never both; a request created is pending, no
\* request created is ever lost, and the history only grows at its end.
C24_PendingXorHistory ==
    /\ [](/\ \A i \in 1..Len(pending_approvals) :
                 pending_approvals[i].key = pending_approvals[i].value.id
          /\ \A i \in HistoryIndices :
                 /\ ~DictHas(pending_approvals, approval_history[i].id)
                 /\ Cardinality({j \in HistoryIndices :
                                    approval_history[j].id = approval_history[i].id}) = 1)
    /\ [][/\ ret'.op = "create_approval_request" =>
                DictHas(pending_approvals', ret'.value[1].id)
          /\ \A id \in IssuedIds :
                DictHas(pending_approvals', id)
                    \/ \E i \in 1..Len(approval_history') : approval_history'[i].id = id
          /\ IsPrefix(approval_history, approval_history')]_vars

\* C24's case: with one request cleared into the history and another
\* resolved behind it, no request is pending.
C24_Witness ==
    /\ pending_approvals = <<>>
    /\ Len(approval_history) = 2
    /\ approval_history[1].status = PENDING
    /\ approval_history[2].status = REJECTED
    /\ ret.op = "respond_to_approval"

\* C26: when start_analysis found no documents, its result has status
\* "error", no agent's loop runs or can take a step, no subagent's run was
\* entered, no todo list holds a todo, and the call left the approval system
\* as it was.
C26_NoDocumentsNoRun ==
    /\ [](ret.op = "start_analysis" /\ ret.value # None =>
              /\ ret.value[1].status = "error"
              /\ \A a \in Agents : state[a] = "IDLE"
              /\ \A s \in SubAgents : loop_entries[s] = 0
              /\ \A a \in TodoOwners : todos[a] = <<>>
              /\ ~ENABLED LoopStep)
    /\ [][ret'.op = "start_analysis" /\ ret'.value # None => UNCHANGED gate_vars]_vars

\* C26's case: an analysis was started with no documents stored: the
\* coordinator was made, and its loop stands idle.
C26_Witness ==
    /\ ret.op = "start_analysis"
    /\ ret.value # None
    /\ current_agent = Some(Main)
    /\ state[Main] = "IDLE"

=============================================================================
